---- MODULE Spec2Model ----
(***************************************************************************)
(* Model of the SDVX tape-LED hook: the per-strip colour transform         *)
(* (transform.cpp: BuildGammaLUT, ParseHexColor, LoadStripFromSection,     *)
(* InitConfig, LoadConfig, CheckReload, RGBtoHSV, HSVtoRGB, TransformStrip)*)
(* and the hook that drives it (dllmain.cpp: SetTapeLedDataHook).          *)
(*                                                                         *)
(* Conventions                                                             *)
(*  - a C string is a sequence of one-character strings, <<"8","0">>;      *)
(*  - an INI file's content is a function from the section names it holds  *)
(*    to functions from the keys of that section to their values;          *)
(*  - a float gamma is the integer count of 10^-5 units of the decimal it  *)
(*    was parsed from (inputs carry at most GammaDigits decimals);         *)
(*  - a FILETIME is a natural number, 0 being the all-zero FILETIME.       *)
(***************************************************************************)
EXTENDS Integers, Sequences, FiniteSets, TLC

VARIABLES
    file,           \* the INI file on disk: NoFile, or [mtime, content, readable]
    strips,         \* TransformConfig.strips[10]
    lastWriteTime,  \* TransformConfig.lastWriteTime
    callCounter,    \* TransformConfig.callCounter
    lastOp,         \* what the last step of the program did (history)
    px,             \* one TransformStrip call: its strip, its buffer and its result
    hsv,            \* one HSVtoRGB / RGBtoHSV round trip: its input and its results
    thr             \* concurrent hook calls: each thread's position and what it has read

vars == <<file, strips, lastWriteTime, callCounter, lastOp, px, hsv, thr>>

-----------------------------------------------------------------------------
(* C arithmetic *)

\* int / int with a positive divisor: truncation toward zero
CDiv(a, b) == IF a >= 0 THEN a \div b ELSE -((-a) \div b)

\* int % int with a positive divisor: the sign of the dividend
CMod(a, b) == a - b * CDiv(a, b)

Min2(a, b) == IF a < b THEN a ELSE b

Max2(a, b) == IF a > b THEN a ELSE b

-----------------------------------------------------------------------------
(* Characters and number parsing *)

Digits == <<"0", "1", "2", "3", "4", "5", "6", "7", "8", "9">>

IsDigit(c) == \E i \in 1..10 : Digits[i] = c

DigitVal(c) == (CHOOSE i \in 1..10 : Digits[i] = c) - 1

HexLower == <<"a", "b", "c", "d", "e", "f">>

HexUpper == <<"A", "B", "C", "D", "E", "F">>

IsHexDigit(c) ==
    \/ IsDigit(c)
    \/ \E i \in 1..6 : HexLower[i] = c \/ HexUpper[i] = c

HexVal(c) ==
    IF IsDigit(c) THEN DigitVal(c)
    ELSE 9 + (CHOOSE i \in 1..6 : HexLower[i] = c \/ HexUpper[i] = c)

\* toupper on the letters a channel order can hold
ToUpper(c) ==
    CASE c = "r" -> "R"
      [] c = "g" -> "G"
      [] c = "b" -> "B"
      [] OTHER -> c

\* the length of the longest prefix of s made of decimal digits, at most max
RECURSIVE DigitPrefixLen(_, _)
DigitPrefixLen(s, max) ==
    IF max = 0 \/ s = <<>> \/ ~IsDigit(Head(s)) THEN 0
    ELSE 1 + DigitPrefixLen(Tail(s), max - 1)

\* the length of the longest prefix of s made of hexadecimal digits, at most max
RECURSIVE HexPrefixLen(_, _)
HexPrefixLen(s, max) ==
    IF max = 0 \/ s = <<>> \/ ~IsHexDigit(Head(s)) THEN 0
    ELSE 1 + HexPrefixLen(Tail(s), max - 1)

\* the number written in decimal by the first n characters of s
RECURSIVE DecOf(_, _)
DecOf(s, n) ==
    IF n = 0 THEN 0 ELSE DecOf(s, n - 1) * 10 + DigitVal(s[n])

\* the number written in hexadecimal by the first n characters of s
RECURSIVE HexOf(_, _)
HexOf(s, n) ==
    IF n = 0 THEN 0 ELSE HexOf(s, n - 1) * 16 + HexVal(s[n])

\* a natural number below 10^n written with exactly n digits
RECURSIVE DigitsOf(_, _)
DigitsOf(x, n) ==
    IF n = 0 THEN <<>>
    ELSE Append(DigitsOf(x \div 10, n - 1), Digits[(x % 10) + 1])

\* a natural number written in decimal without leading zeros
RECURSIVE NatToStr(_)
NatToStr(x) ==
    IF x < 10 THEN <<Digits[x + 1]>>
    ELSE Append(NatToStr(x \div 10), Digits[(x % 10) + 1])

\* decimals a gamma keeps
GammaDigits == 5

GammaUnit == 10 ^ GammaDigits

\* atof, then the cast to float: [sign] digits [. digits]; 0.0 when no number
\* starts the string ("abc")
Atof(str) ==
    LET neg == str # <<>> /\ Head(str) = "-"
        body == IF str # <<>> /\ Head(str) \in {"-", "+"} THEN Tail(str) ELSE str
        n == DigitPrefixLen(body, Len(body))
        rest == SubSeq(body, n + 1, Len(body))
        frac == IF rest # <<>> /\ Head(rest) = "." THEN Tail(rest) ELSE <<>>
        m == DigitPrefixLen(frac, GammaDigits)
        val == DecOf(body, n) * GammaUnit + DecOf(frac, m) * (10 ^ (GammaDigits - m))
    IN  IF neg THEN -val ELSE val

\* sprintf_s(defBuf, "%.4f", defaultVal): the value rounded to 4 decimals
FormatF4(g) ==
    LET a == IF g < 0 THEN -g ELSE g
        r == (a + 5 * 10 ^ (GammaDigits - 5)) \div (10 ^ (GammaDigits - 4))
        txt == NatToStr(r \div 10000) \o <<".">> \o DigitsOf(r % 10000, 4)
    IN  IF g < 0 THEN <<"-">> \o txt ELSE txt

\* the integer GetPrivateProfileIntA reads from a value: [sign] digits, 0 when
\* no number starts the value
ParseInt(str) ==
    LET neg == str # <<>> /\ Head(str) = "-"
        body == IF str # <<>> /\ Head(str) \in {"-", "+"} THEN Tail(str) ELSE str
        n == DigitPrefixLen(body, Min2(Len(body), 6))
        val == DecOf(body, n)
    IN  IF neg THEN -val ELSE val

-----------------------------------------------------------------------------
(* The INI file as the profile API sees it *)

\* what the profile API reads from a file that is absent or cannot be opened
EmptyIni == [s \in {} |-> <<>>]

NoFile == [exists |-> FALSE, mtime |-> 0, content |-> EmptyIni, readable |-> FALSE]

\* GetFileAttributesW(path) # INVALID_FILE_ATTRIBUTES
IsFile(f) == f.exists

\* CreateFileW(path, GENERIC_READ, FILE_SHARE_READ, OPEN_EXISTING) # INVALID_HANDLE_VALUE:
\* the file exists and no other process holds it open for writing
Readable(f) == IsFile(f) /\ f.readable

IniOf(f) == IF Readable(f) THEN f.content ELSE EmptyIni

HasKey(ini, section, key) ==
    /\ section \in DOMAIN ini
    /\ key \in DOMAIN ini[section]

\* GetPrivateProfileStringA(section, key, default, buf, size, path)
GetPrivateProfileStringA(ini, section, key, default, size) ==
    LET v == IF HasKey(ini, section, key) THEN ini[section][key] ELSE default
    IN  SubSeq(v, 1, Min2(Len(v), size - 1))

\* GetPrivateProfileIntA(section, key, default, path)
GetPrivateProfileIntA(ini, section, key, default) ==
    IF HasKey(ini, section, key) THEN ParseInt(ini[section][key]) ELSE default

GetProfileFloat(ini, section, key, defaultVal) ==
    Atof(GetPrivateProfileStringA(ini, section, key, FormatF4(defaultVal), 64))

-----------------------------------------------------------------------------
(* transform.h: StripTransform, and the parsers of transform.cpp *)

NumStrips == 10

StripIndex == 0..(NumStrips - 1)

StripSectionNames ==
    [i \in StripIndex |->
        CASE i = 0 -> "title"
          [] i = 1 -> "upper_left_speaker"
          [] i = 2 -> "upper_right_speaker"
          [] i = 3 -> "left_wing"
          [] i = 4 -> "right_wing"
          [] i = 5 -> "ctrl_panel"
          [] i = 6 -> "lower_left_speaker"
          [] i = 7 -> "lower_right_speaker"
          [] i = 8 -> "woofer"
          [] OTHER -> "v_unit"]

Byte == 0..255

\* static_cast<int>(powf(i / 255.0f, 1.0f / gamma) * 255.0f + 0.5f), clamped to a
\* byte, for the exponents whose power integer arithmetic decides:
\*   gamma = 0 (what atof makes of "abc"): the exponent is +inf, the power is 0
\*             below 1.0 and 1 at 1.0;
\*   gamma = 0.5: the power is the square, (i*i)/255 rounded to nearest;
\*   gamma = 2.0: the power is the square root, sqrt(255*i) rounded to nearest;
\*   gamma within 10^-4 of 1.0: the power stays within 0.01 of i/255*255.
GammaCorrect(i, gamma) ==
    CASE gamma = 0 -> IF i = 255 THEN 255 ELSE 0
      [] 2 * gamma = GammaUnit -> (2 * i * i + 255) \div 510
      [] gamma = 2 * GammaUnit ->
            CHOOSE n \in Byte :
                (2 * n - 1) * (2 * n - 1) <= 1020 * i /\ 1020 * i < (2 * n + 1) * (2 * n + 1)
      [] gamma # 0 /\ (gamma - GammaUnit) * 10000 <= GammaUnit
                   /\ (GammaUnit - gamma) * 10000 <= GammaUnit -> i

BuildGammaLUT(gamma) ==
    IF gamma = GammaUnit THEN [i \in Byte |-> i]
    ELSE [i \in Byte |-> Min2(Max2(GammaCorrect(i, gamma), 0), 255)]

UpperStr(str) == [i \in 1..Len(str) |-> ToUpper(str[i])]

\* _stricmp(a, b) == 0
StrIEq(a, b) == UpperStr(a) = UpperStr(b)

ParseChannelOrder(str) ==
    CASE StrIEq(str, <<"R", "B", "G">>) -> "CH_RBG"
      [] StrIEq(str, <<"G", "R", "B">>) -> "CH_GRB"
      [] StrIEq(str, <<"G", "B", "R">>) -> "CH_GBR"
      [] StrIEq(str, <<"B", "R", "G">>) -> "CH_BRG"
      [] StrIEq(str, <<"B", "G", "R">>) -> "CH_BGR"
      [] OTHER -> "CH_RGB"

\* sscanf_s(hex, "%06x", &val) on a string without blanks, signs or a 0x prefix:
\* the longest prefix of at most 6 hexadecimal digits is converted, and the
\* conversion fails only when that prefix is empty
Sscanf06x(hex) ==
    LET n == HexPrefixLen(hex, 6)
    IN  [count |-> IF n = 0 THEN 0 ELSE 1, val |-> HexOf(hex, n)]

\* ParseHexColor(str, r, g, b): ok is the return value; r, g, b are written only
\* when it is true
ParseHexColor(str) ==
    LET hex == IF str # <<>> /\ Head(str) = "#" THEN Tail(str) ELSE str
        sc == Sscanf06x(hex)
    IN  IF str = <<>> \/ Len(hex) # 6 \/ sc.count # 1
        THEN [ok |-> FALSE, r |-> 0, g |-> 0, b |-> 0]
        ELSE [ok |-> TRUE,
              r |-> (sc.val \div 65536) % 256,
              g |-> (sc.val \div 256) % 256,
              b |-> sc.val % 256]

\* the defOrder switch of LoadStripFromSection
DefOrder(channelOrder) ==
    CASE channelOrder = "CH_RBG" -> <<"R", "B", "G">>
      [] channelOrder = "CH_GRB" -> <<"G", "R", "B">>
      [] channelOrder = "CH_GBR" -> <<"G", "B", "R">>
      [] channelOrder = "CH_BRG" -> <<"B", "R", "G">>
      [] channelOrder = "CH_BGR" -> <<"B", "G", "R">>
      [] OTHER -> <<"R", "G", "B">>

\* strip.enabled as LoadStripFromSection computes it from the resolved fields
AnyTransformActive(t) ==
    \/ t.channelOrder # "CH_RGB"
    \/ t.gamma_r # GammaUnit
    \/ t.gamma_g # GammaUnit
    \/ t.gamma_b # GammaUnit
    \/ t.hue_shift # 0
    \/ t.saturation # 100
    \/ t.brightness # 100
    \/ t.static_color_enabled
    \/ t.gradient_enabled

\* a wrap that leaves a negative remainder as it is
WrapHueNoOffset(h) == CMod(h, 360)

\* strip.hue_shift = ((strip.hue_shift % 360) + 360) % 360
WrapHue(h) == CMod(CMod(h, 360) + 360, 360)

\* std::min(std::max(x, 0), 200)
ClampPercent(x) == Min2(Max2(x, 0), 200)

\* a gradient colour accepted without a static colour
GradientAcceptedAlone(staticOn, gradOk) == gradOk

\* strip.static_color_enabled && ParseHexColor(gradStr, ...)
GradientAccepted(staticOn, gradOk) == staticOn /\ gradOk

\* the first part of LoadStripFromSection(strip, section, defaults, path): the
\* fields read from the section, each falling back to its value in defaults
ResolveFields(ini, section, defaults) ==
    LET orderStr == GetPrivateProfileStringA(ini, section, "channel_order",
                                             DefOrder(defaults.channelOrder), 16)
        hue == GetPrivateProfileIntA(ini, section, "hue_shift", defaults.hue_shift)
        sat == GetPrivateProfileIntA(ini, section, "saturation", defaults.saturation)
        bri == GetPrivateProfileIntA(ini, section, "brightness", defaults.brightness)
        sc == ParseHexColor(GetPrivateProfileStringA(ini, section, "static_color", <<>>, 16))
        staticOn == IF sc.ok THEN TRUE ELSE defaults.static_color_enabled
        gc == ParseHexColor(GetPrivateProfileStringA(ini, section, "gradient_color", <<>>, 16))
        gradOwn == GradientAccepted(staticOn, gc.ok)
    IN  [channelOrder |-> ParseChannelOrder(orderStr),
         gamma_r |-> GetProfileFloat(ini, section, "gamma_r", defaults.gamma_r),
         gamma_g |-> GetProfileFloat(ini, section, "gamma_g", defaults.gamma_g),
         gamma_b |-> GetProfileFloat(ini, section, "gamma_b", defaults.gamma_b),
         hue_shift |-> WrapHue(hue),
         saturation |-> ClampPercent(sat),
         brightness |-> ClampPercent(bri),
         static_color_enabled |-> staticOn,
         static_r |-> IF sc.ok THEN sc.r ELSE defaults.static_r,
         static_g |-> IF sc.ok THEN sc.g ELSE defaults.static_g,
         static_b |-> IF sc.ok THEN sc.b ELSE defaults.static_b,
         gradient_enabled |-> IF gradOwn THEN TRUE ELSE defaults.gradient_enabled,
         gradient_r2 |-> IF gradOwn THEN gc.r ELSE defaults.gradient_r2,
         gradient_g2 |-> IF gradOwn THEN gc.g ELSE defaults.gradient_g2,
         gradient_b2 |-> IF gradOwn THEN gc.b ELSE defaults.gradient_b2]

\* the last part of LoadStripFromSection: the gamma LUTs and strip.enabled
BuildDerived(t) ==
    [enabled |-> AnyTransformActive(t),
     channelOrder |-> t.channelOrder,
     gamma_r |-> t.gamma_r, gamma_g |-> t.gamma_g, gamma_b |-> t.gamma_b,
     hue_shift |-> t.hue_shift,
     saturation |-> t.saturation,
     brightness |-> t.brightness,
     static_color_enabled |-> t.static_color_enabled,
     static_r |-> t.static_r, static_g |-> t.static_g, static_b |-> t.static_b,
     gradient_enabled |-> t.gradient_enabled,
     gradient_r2 |-> t.gradient_r2, gradient_g2 |-> t.gradient_g2,
     gradient_b2 |-> t.gradient_b2,
     lut_r |-> BuildGammaLUT(t.gamma_r),
     lut_g |-> BuildGammaLUT(t.gamma_g),
     lut_b |-> BuildGammaLUT(t.gamma_b)]

\* LoadStripFromSection(strip, section, defaults, path): every field of strip is
\* assigned, so the result depends on the section and the defaults alone
LoadStripFromSection(ini, section, defaults) ==
    CHOOSE strip \in {BuildDerived(t) : t \in {ResolveFields(ini, section, defaults)}} : TRUE

\* the identity defaults InitConfig gives every strip, and CheckReload gives
\* every strip when the file is gone
IdentityStrip ==
    [enabled |-> FALSE,
     channelOrder |-> "CH_RGB",
     gamma_r |-> GammaUnit, gamma_g |-> GammaUnit, gamma_b |-> GammaUnit,
     hue_shift |-> 0,
     saturation |-> 100,
     brightness |-> 100,
     static_color_enabled |-> FALSE,
     static_r |-> 0, static_g |-> 0, static_b |-> 0,
     gradient_enabled |-> FALSE,
     gradient_r2 |-> 0, gradient_g2 |-> 0, gradient_b2 |-> 0,
     lut_r |-> BuildGammaLUT(GammaUnit),
     lut_g |-> BuildGammaLUT(GammaUnit),
     lut_b |-> BuildGammaLUT(GammaUnit)]

\* the fields LoadConfig sets in globalDefaults before it loads [global]; enabled
\* and the LUTs are not set, and LoadStripFromSection does not read them
HardcodedDefaults ==
    [channelOrder |-> "CH_RGB",
     gamma_r |-> GammaUnit, gamma_g |-> GammaUnit, gamma_b |-> GammaUnit,
     hue_shift |-> 0,
     saturation |-> 100,
     brightness |-> 100,
     static_color_enabled |-> FALSE,
     static_r |-> 0, static_g |-> 0, static_b |-> 0,
     gradient_enabled |-> FALSE,
     gradient_r2 |-> 0, gradient_g2 |-> 0, gradient_b2 |-> 0]

\* InitConfig: the strips; callCounter and lastWriteTime are 0
InitConfig == [i \in StripIndex |-> IdentityStrip]

\* the globalDefaults LoadConfig resolves from [global]
GlobalDefaults(ini) == LoadStripFromSection(ini, "global", HardcodedDefaults)

\* the loop of LoadConfig over the strips, falling back to [global] values
LoadStrips(ini, globalDefaults) ==
    [i \in StripIndex |-> LoadStripFromSection(ini, StripSectionNames[i], globalDefaults)]

\* LoadConfig(config) with the file in state f throughout the call: the strips
\* and the lastWriteTime it leaves
LoadConfig(oldStrips, oldTime, f) ==
    IF ~IsFile(f)
    THEN [strips |-> [i \in StripIndex |-> [oldStrips[i] EXCEPT !.enabled = FALSE]],
          lastWriteTime |-> oldTime]
    ELSE [strips |-> CHOOSE ss \in {LoadStrips(IniOf(f), g) : g \in {GlobalDefaults(IniOf(f))}} : TRUE,
          lastWriteTime |-> IF Readable(f) THEN f.mtime ELSE oldTime]

-----------------------------------------------------------------------------
(* RGB <-> HSV and TransformStrip *)

Max3(a, b, c) == Max2(a, Max2(b, c))

Min3(a, b, c) == Min2(a, Min2(b, c))

\* RGBtoHSV(r, g, b, h, s, v): H = 0-359, S = 0-255, V = 0-255
RGBtoHSV(r, g, b) ==
    LET maxVal == Max3(r, g, b)
        minVal == Min3(r, g, b)
        delta == maxVal - minVal
        h0 == IF maxVal = r THEN CDiv(60 * (g - b), delta)
              ELSE IF maxVal = g THEN 120 + CDiv(60 * (b - r), delta)
              ELSE 240 + CDiv(60 * (r - g), delta)
    IN  IF maxVal = 0 THEN [h |-> 0, s |-> 0, v |-> maxVal]
        ELSE IF delta = 0 THEN [h |-> 0, s |-> CDiv(delta * 255, maxVal), v |-> maxVal]
        ELSE [h |-> IF h0 < 0 THEN h0 + 360 ELSE h0,
              s |-> CDiv(delta * 255, maxVal),
              v |-> maxVal]

\* (uint8_t)x
U8(x) == x % 256

\* HSVtoRGB with the falling and the rising channel exchanged
HSVtoRGBSwapped(h, s, v) ==
    LET hh == CMod(h, 360)
        region == CDiv(hh, 60)
        remainder == CMod(hh, 60)
        p == CDiv(v * (255 - s), 255)
        t == CDiv(v * (255 - CDiv(s * remainder, 60)), 255)
        q == CDiv(v * (255 - CDiv(s * (60 - remainder), 60)), 255)
    IN  IF s = 0 THEN <<U8(v), U8(v), U8(v)>>
        ELSE CASE region = 0 -> <<U8(v), U8(t), U8(p)>>
               [] region = 1 -> <<U8(q), U8(v), U8(p)>>
               [] region = 2 -> <<U8(p), U8(v), U8(t)>>
               [] region = 3 -> <<U8(p), U8(q), U8(v)>>
               [] region = 4 -> <<U8(t), U8(p), U8(v)>>
               [] OTHER -> <<U8(v), U8(p), U8(q)>>

\* HSVtoRGB(h, s, v, r, g, b)
HSVtoRGB(h, s, v) ==
    LET hh == CMod(h, 360)
        region == CDiv(hh, 60)
        remainder == CMod(hh, 60)
        p == CDiv(v * (255 - s), 255)
        q == CDiv(v * (255 - CDiv(s * remainder, 60)), 255)
        t == CDiv(v * (255 - CDiv(s * (60 - remainder), 60)), 255)
    IN  IF s = 0 THEN <<U8(v), U8(v), U8(v)>>
        ELSE CASE region = 0 -> <<U8(v), U8(t), U8(p)>>
               [] region = 1 -> <<U8(q), U8(v), U8(p)>>
               [] region = 2 -> <<U8(p), U8(v), U8(t)>>
               [] region = 3 -> <<U8(p), U8(q), U8(v)>>
               [] region = 4 -> <<U8(t), U8(p), U8(v)>>
               [] OTHER -> <<U8(v), U8(p), U8(q)>>

\* step 1 of the loop body: swap the channels
ChannelSwap(strip, c) ==
    LET r == c[1]
        g == c[2]
        b == c[3]
    IN  CASE strip.channelOrder = "CH_RBG" -> <<r, b, g>>
          [] strip.channelOrder = "CH_GRB" -> <<g, r, b>>
          [] strip.channelOrder = "CH_GBR" -> <<g, b, r>>
          [] strip.channelOrder = "CH_BRG" -> <<b, r, g>>
          [] strip.channelOrder = "CH_BGR" -> <<b, g, r>>
          [] OTHER -> <<r, g, b>>

\* step 2: gamma correction through the LUTs
GammaStage(strip, c) == <<strip.lut_r[c[1]], strip.lut_g[c[2]], strip.lut_b[c[3]]>>

\* the static colour's own value in place of the pixel's
ReplacementValueOfStatic(pixelHSV, staticHSV) == staticHSV.v

\* the value HSVtoRGB is given when a static colour replaces the pixel's hue and
\* saturation: the pixel's own
ReplacementValue(pixelHSV, staticHSV) == pixelHSV.v

\* the difference of two hues taken as it is
RawHueDiff(h1, h2) == h2 - h1

\* hDiff: the way from hue h1 to hue h2 along the shortest path around the circle
ShortestHueDiff(h1, h2) ==
    LET d0 == h2 - h1
        d1 == IF d0 > 180 THEN d0 - 360 ELSE d0
    IN  IF d1 < -180 THEN d1 + 360 ELSE d1

\* the hue and the saturation HSVtoRGB is given for the LED at ledIdx of a strip
\* with a static colour: interpH and interpS with a gradient on more than one
\* LED, staticH1 and staticS1 otherwise
StaticHS(strip, ledIdx, numLEDs) ==
    LET st1 == RGBtoHSV(strip.static_r, strip.static_g, strip.static_b)
        st2 == IF strip.gradient_enabled
               THEN RGBtoHSV(strip.gradient_r2, strip.gradient_g2, strip.gradient_b2)
               ELSE [h |-> 0, s |-> 0, v |-> 0]
        hDiff == ShortestHueDiff(st1.h, st2.h)
        interpH == CMod(st1.h + CDiv(hDiff * ledIdx, numLEDs - 1) + 360, 360)
        interpS == st1.s + CDiv((st2.s - st1.s) * ledIdx, numLEDs - 1)
    IN  IF strip.gradient_enabled /\ numLEDs > 1
        THEN [h |-> interpH, s |-> interpS]
        ELSE [h |-> st1.h, s |-> st1.s]

\* step 3 with a static colour: the pixel's hue and saturation are replaced by the
\* static colour's, or by the gradient's at this LED
StaticColorStage(strip, c, ledIdx, numLEDs) ==
    LET st1 == RGBtoHSV(strip.static_r, strip.static_g, strip.static_b)
        own == RGBtoHSV(c[1], c[2], c[3])
        v == ReplacementValue(own, st1)
    IN  CHOOSE rgb \in {HSVtoRGB(hs.h, hs.s, v) : hs \in {StaticHS(strip, ledIdx, numLEDs)}} : TRUE

\* step 3 without a static colour: hue shift and saturation
HueSatStage(strip, c) ==
    LET own == RGBtoHSV(c[1], c[2], c[3])
        h == CMod(own.h + strip.hue_shift, 360)
        s == IF strip.saturation # 100
             THEN Min2(CDiv(own.s * strip.saturation, 100), 255)
             ELSE own.s
    IN  HSVtoRGB(h, s, own.v)

\* step 3: static colour / gradient OR hue shift / saturation
ColorStage(strip, c, ledIdx, numLEDs) ==
    IF strip.static_color_enabled THEN StaticColorStage(strip, c, ledIdx, numLEDs)
    ELSE IF strip.hue_shift # 0 \/ strip.saturation # 100 THEN HueSatStage(strip, c)
    ELSE c

\* step 4: brightness scaling
BrightnessStage(strip, c) ==
    IF strip.brightness # 100
    THEN [k \in 1..3 |-> U8(Min2(CDiv(c[k] * strip.brightness, 100), 255))]
    ELSE c

\* the pixel the colour stage is given: steps 1 and 2
GammaCorrected(strip, c) == GammaStage(strip, ChannelSwap(strip, c))

\* one iteration of the loop of TransformStrip
TransformPixel(strip, c, ledIdx, numLEDs) ==
    BrightnessStage(strip, ColorStage(strip, GammaCorrected(strip, c), ledIdx, numLEDs))

\* the loop of TransformStrip over a buffer of Len(data) bytes, 3 per LED
TransformLoop(strip, data) ==
    LET numLEDs == Len(data) \div 3
    IN  [j \in 1..Len(data) |->
            LET ledIdx == (j - 1) \div 3
                c == <<data[3 * ledIdx + 1], data[3 * ledIdx + 2], data[3 * ledIdx + 3]>>
            IN  TransformPixel(strip, c, ledIdx, numLEDs)[((j - 1) % 3) + 1]]

\* TransformStrip without its fast path: the loop runs whatever strip.enabled is
TransformStripNoFastPath(strip, data) == TransformLoop(strip, data)

\* TransformStrip(strip, data, numBytes): the buffer it leaves
TransformStrip(strip, data) ==
    IF ~strip.enabled THEN data ELSE TransformLoop(strip, data)

\* the LED at ledIdx of a buffer
PixelAt(data, ledIdx) == <<data[3 * ledIdx + 1], data[3 * ledIdx + 2], data[3 * ledIdx + 3]>>

\* cr, cg, cb of every LED after step 2 of the loop
GammaCorrectedBuf(strip, data) ==
    [j \in 1..Len(data) |->
        GammaCorrected(strip, PixelAt(data, (j - 1) \div 3))[((j - 1) % 3) + 1]]

\* cr, cg, cb of every LED after step 3 of the loop
ColorStageBuf(strip, data) ==
    [j \in 1..Len(data) |->
        ColorStage(strip, GammaCorrected(strip, PixelAt(data, (j - 1) \div 3)),
                   (j - 1) \div 3, Len(data) \div 3)[((j - 1) % 3) + 1]]

-----------------------------------------------------------------------------
(* The reload state machine: DllMain, then hook calls, with the file system
   changing the INI file between and during them *)

\* a threshold one call late
ReloadIntervalOffByOne == 300 + 1

RELOAD_INTERVAL == 300

\* the largest modification time a file gets (a real file's FILETIME is not 0)
MaxTime == 2

FileTimes == 1..MaxTime

NoSection == [k \in {} |-> <<>>]

\* the contents the file takes while hook calls run
ReloadContents ==
    { [global |-> [brightness |-> <<"8", "0">>]],
      [global |-> [brightness |-> <<"8", "0">>],
       title |-> [static_color |-> <<"F", "F", "0", "0", "0", "0">>,
                  gradient_color |-> <<"0", "0", "0", "0", "F", "F">>]] }

FileOf(c, t) == [exists |-> TRUE, mtime |-> t, content |-> c, readable |-> TRUE]

\* lastOp: the last step the program took and the file as that step found it
Did(op, f) == [op |-> op, seen |-> f]

\* px before any call
PxIdle == [index |-> 0, strip |-> IdentityStrip, data |-> <<>>, gc |-> <<>>,
           hs |-> <<>>, mid |-> <<>>, out |-> <<>>, done |-> FALSE]

HsvIdle == [h |-> 0, s |-> 0, v |-> 0, rgb |-> <<0, 0, 0>>,
            back |-> [h |-> 0, s |-> 0, v |-> 0], done |-> FALSE]

ThrIdle == <<>>

Init ==
    /\ file \in {NoFile} \cup {FileOf(c, t) : c \in ReloadContents, t \in FileTimes}
    /\ strips = InitConfig
    /\ lastWriteTime = 0
    /\ callCounter = 0
    /\ lastOp = Did("InitConfig", NoFile)
    /\ px = PxIdle
    /\ hsv = HsvIdle
    /\ thr = ThrIdle

\* DllMain, DLL_PROCESS_ATTACH: LoadConfig right after InitConfig
DllMainLoad ==
    /\ lastOp.op = "InitConfig"
    /\ \E r \in {LoadConfig(strips, lastWriteTime, file)} :
          /\ strips' = r.strips
          /\ lastWriteTime' = r.lastWriteTime
    /\ lastOp' = Did(IF IsFile(file) THEN "LoadConfig" ELSE "LoadConfigNoFile", file)
    /\ UNCHANGED <<file, callCounter, px, hsv, thr>>

\* a comparison that takes every check for a change
FileTimeAlwaysChanged(ft, stored) == TRUE

\* CompareFileTime(&ft, &config.lastWriteTime) != 0
FileTimeChanged(ft, stored) == ft # stored

\* a deleted-file branch that resets the strips on every check and keeps the
\* timestamp
ResetAlways(oldStrips, oldTime) ==
    [strips |-> [i \in StripIndex |-> IdentityStrip], lastWriteTime |-> oldTime]

\* the deleted-file branch of CheckReload: the strips and the timestamp it leaves
ResetToIdentity(oldStrips, oldTime) ==
    IF oldTime # 0
    THEN [strips |-> [i \in StripIndex |-> IdentityStrip], lastWriteTime |-> 0]
    ELSE [strips |-> oldStrips, lastWriteTime |-> oldTime]

\* the states the file can be in when LoadConfig runs, given the state CheckReload
\* found it in: another process may delete it, or open it for writing, in between
FileAtLoad(f) == {f, NoFile, [f EXCEPT !.readable = FALSE]}

\* CheckReload(config): what it does to the configuration and to the file's
\* state as LoadConfig finds it
CheckReloadBody ==
    /\ lastOp.op # "InitConfig"
    /\ IF callCounter + 1 < RELOAD_INTERVAL
       THEN /\ callCounter' = callCounter + 1
            /\ lastOp' = Did("tick", NoFile)
            /\ UNCHANGED <<file, strips, lastWriteTime>>
       ELSE /\ callCounter' = 0
            /\ IF ~Readable(file)
               THEN \E r \in {ResetToIdentity(strips, lastWriteTime)} :
                        /\ strips' = r.strips
                        /\ lastWriteTime' = r.lastWriteTime
                        /\ lastOp' = Did(IF lastWriteTime # 0 THEN "check_reset"
                                         ELSE "check_gone", file)
                        /\ UNCHANGED file
               ELSE IF FileTimeChanged(file.mtime, lastWriteTime)
               THEN \E f \in FileAtLoad(file) :
                        \E r \in {LoadConfig(strips, lastWriteTime, f)} :
                            /\ file' = f
                            /\ strips' = r.strips
                            /\ lastWriteTime' = r.lastWriteTime
                            /\ lastOp' = Did(IF ~IsFile(f) THEN "check_load_nofile"
                                             ELSE IF ~Readable(f) THEN "check_load_unreadable"
                                             ELSE "check_load", file)
               ELSE /\ lastOp' = Did("check_same", file)
                    /\ UNCHANGED <<file, strips, lastWriteTime>>

\* CheckReload(config), called by SetTapeLedDataHook for every index < 10
CheckReload ==
    /\ CheckReloadBody
    /\ UNCHANGED <<px, hsv, thr>>

\* another process writes the file: new content, and a modification time that
\* may or may not differ from the old one
WriteFile ==
    /\ lastOp.op # "InitConfig"
    /\ \E c \in ReloadContents, t \in FileTimes :
          /\ file' = FileOf(c, t)
          /\ file' # file
    /\ UNCHANGED <<strips, lastWriteTime, callCounter, lastOp, px, hsv, thr>>

\* another process deletes the file
DeleteFile ==
    /\ lastOp.op # "InitConfig"
    /\ IsFile(file)
    /\ file' = NoFile
    /\ UNCHANGED <<strips, lastWriteTime, callCounter, lastOp, px, hsv, thr>>

\* another process opens the file for writing, or closes it again
LockFile ==
    /\ lastOp.op # "InitConfig"
    /\ IsFile(file)
    /\ file' = [file EXCEPT !.readable = ~file.readable]
    /\ UNCHANGED <<strips, lastWriteTime, callCounter, lastOp, px, hsv, thr>>

Next == DllMainLoad \/ CheckReload \/ WriteFile \/ DeleteFile \/ LockFile

Spec == Init /\ [][Next]_vars

\* a step of CheckReload that performs the check
CheckStep == callCounter = RELOAD_INTERVAL - 1 /\ callCounter' = 0

-----------------------------------------------------------------------------
(* C2: a reload whose load fails keeps the strips and the timestamp *)

\* C2: when a check finds the file readable with a modification time other than
\* the stored one, and the file is gone or cannot be opened by the time
\* LoadConfig runs, the strips and the stored timestamp stay as they were
C2_FailedLoadKeepsConfig ==
    [][(CheckStep /\ Readable(file) /\ file.mtime # lastWriteTime /\ ~Readable(file'))
        => (strips' = strips /\ lastWriteTime' = lastWriteTime)]_vars

-----------------------------------------------------------------------------
(* C3: reload gating by the modification time *)

LoadOps == {"check_load", "check_load_nofile", "check_load_unreadable"}

-----------------------------------------------------------------------------
(* C4: the one-time reset when the file is deleted *)

\* C4: a check that finds no file resets every strip to the identity defaults and
\* clears the stored timestamp when a timestamp is stored (the file was loaded
\* before), and changes neither when none is stored (the reset has been done)
C4_ResetOnce ==
    [][(CheckStep /\ ~IsFile(file))
        => /\ lastWriteTime # 0 => (strips' = InitConfig /\ lastWriteTime' = 0)
           /\ lastWriteTime = 0 => (strips' = strips /\ lastWriteTime' = lastWriteTime)
           /\ lastWriteTime' = 0]_vars

\* a check found the file deleted after it had been loaded with a transform,
\* and reset the strips
C4_Witness ==
    /\ lastOp.op = "check_reset"
    /\ ~IsFile(lastOp.seen)
    /\ strips = InitConfig
    /\ lastWriteTime = 0

-----------------------------------------------------------------------------
(* Loading at start-up, over a range of [global] and [title] sections *)

SectionSamples ==
    { NoSection,
      [brightness |-> <<"8", "0">>],
      [brightness |-> <<"a", "b", "c">>],
      [gamma_r |-> <<"1", ".", "0", "0", "0", "0", "1">>],
      [gamma_r |-> <<"a", "b", "c">>],
      [gamma_g |-> <<"0", ".", "5">>],
      [static_color |-> <<"F", "F", "0", "0", "0", "0">>],
      [static_color |-> <<"z", "z", "z", "z", "z", "z">>],
      [static_color |-> <<"1", "2", "z", "z", "z", "z">>],
      [static_color |-> <<"#", "8", "0", "0", "0", "f", "f">>,
       gradient_color |-> <<"0", "0", "0", "0", "F", "F">>],
      [gradient_color |-> <<"0", "0", "0", "0", "F", "F">>],
      [hue_shift |-> <<"3", "7", "0">>, saturation |-> <<"2", "5", "0">>],
      [hue_shift |-> <<"-", "1", "0">>, saturation |-> <<"x">>],
      [channel_order |-> <<"b", "g", "r">>] }

LoadContents == {[global |-> g, title |-> t] : g \in SectionSamples, t \in SectionSamples}

InitLoad ==
    /\ file \in {FileOf(c, 1) : c \in LoadContents}
    /\ strips = InitConfig
    /\ lastWriteTime = 0
    /\ callCounter = 0
    /\ lastOp = Did("InitConfig", NoFile)
    /\ px = PxIdle
    /\ hsv = HsvIdle
    /\ thr = ThrIdle

SpecLoad == InitLoad /\ [][DllMainLoad]_vars

IntKeys == {"hue_shift", "saturation", "brightness"}

FloatKeys == {"gamma_r", "gamma_g", "gamma_b"}

ColorKeys == {"static_color", "gradient_color"}

\* the text is a decimal number: [sign] digits [. digits]
IsNumberText(str) ==
    LET body == IF str # <<>> /\ Head(str) \in {"-", "+"} THEN Tail(str) ELSE str
        n == DigitPrefixLen(body, Len(body))
        rest == SubSeq(body, n + 1, Len(body))
    IN  /\ n > 0
        /\ \/ rest = <<>>
           \/ Head(rest) = "." /\ DigitPrefixLen(Tail(rest), Len(rest)) = Len(rest) - 1

\* the text is an optional '#' and exactly 6 hexadecimal digits
IsHexColorText(str) ==
    LET hex == IF str # <<>> /\ Head(str) = "#" THEN Tail(str) ELSE str
    IN  Len(hex) = 6 /\ \A i \in 1..6 : IsHexDigit(hex[i])

\* the content without one key of one section
RemoveKey(content, section, key) ==
    [content EXCEPT ![section] = [k \in DOMAIN content[section] \ {key} |-> content[section][k]]]

\* the strips a load of the content leaves
LoadedStrips(content) == LoadConfig(InitConfig, 0, FileOf(content, 1)).strips

\* C5: a numeric key whose value is no number resolves as if the key were
\* missing (to the [global] value in a strip section, to the identity value in
\* [global]): after a load, the strips are those a load of the file without that
\* key leaves
C5_MalformedNumberIsMissing ==
    lastOp.op = "LoadConfig" =>
        \A section \in DOMAIN file.content :
            \A key \in (IntKeys \cup FloatKeys) \cap DOMAIN file.content[section] :
                ~IsNumberText(file.content[section][key])
                    => strips = LoadedStrips(RemoveKey(file.content, section, key))

\* C6: a static_color or gradient_color value that is not an optional '#' and
\* exactly 6 hexadecimal digits resolves as if the key were missing: after a
\* load, the strips are those a load of the file without that key leaves
C6_MalformedColorIsMissing ==
    lastOp.op = "LoadConfig" =>
        \A section \in DOMAIN file.content :
            \A key \in ColorKeys \cap DOMAIN file.content[section] :
                ~IsHexColorText(file.content[section][key])
                    => strips = LoadedStrips(RemoveKey(file.content, section, key))

\* the fields of a strip that a key sets
FieldsOfKey(key) ==
    CASE key = "channel_order" -> {"channelOrder"}
      [] key = "gamma_r" -> {"gamma_r", "lut_r"}
      [] key = "gamma_g" -> {"gamma_g", "lut_g"}
      [] key = "gamma_b" -> {"gamma_b", "lut_b"}
      [] key = "hue_shift" -> {"hue_shift"}
      [] key = "saturation" -> {"saturation"}
      [] key = "brightness" -> {"brightness"}
      [] key = "static_color" -> {"static_color_enabled", "static_r", "static_g", "static_b"}
      [] key = "gradient_color" ->
            {"gradient_enabled", "gradient_r2", "gradient_g2", "gradient_b2"}

AllKeys == {"channel_order"} \cup FloatKeys \cup IntKeys \cup ColorKeys

\* a buffer of n LEDs of one colour
Uniform(n, c) == [j \in 1..(3 * n) |-> c[((j - 1) % 3) + 1]]

\* C7: after a load, every field of every strip whose key the strip's section
\* does not hold has the value resolved for [global]; and with only [global]
\* brightness=80 every strip is enabled, maps every byte x to min(255, x*80 div 100),
\* and turns 74 white LEDs on "title" into 74 LEDs of (204,204,204)
C7_InheritsFromGlobal ==
    lastOp.op = "LoadConfig" =>
        /\ \A i \in StripIndex : \A key \in AllKeys :
              ~HasKey(file.content, StripSectionNames[i], key)
                  => \A f \in FieldsOfKey(key) :
                        strips[i][f] = GlobalDefaults(file.content)[f]
        /\ file.content = [global |-> [brightness |-> <<"8", "0">>], title |-> NoSection]
              => /\ \A i \in StripIndex : strips[i].enabled
                 /\ \A x \in Byte :
                       TransformStrip(strips[0], <<x, x, x>>)
                           = Uniform(1, [k \in 1..3 |-> Min2(255, (x * 80) \div 100)])
                 /\ TransformStrip(strips[0], Uniform(74, <<255, 255, 255>>))
                       = Uniform(74, <<204, 204, 204>>)

-----------------------------------------------------------------------------
(* Hook calls around a reload check: SetTapeLedDataHook on sample buffers *)

\* the largest number of LEDs of a buffer
MaxLEDs == 3

PixelSamples == {<<0, 0, 0>>, <<10, 200, 30>>, <<255, 128, 0>>}

\* the buffers of n LEDs
RECURSIVE BuffersOf(_)
BuffersOf(n) ==
    IF n = 0 THEN {<<>>}
    ELSE {b \o c : b \in BuffersOf(n - 1), c \in PixelSamples}

Buffers == UNION {BuffersOf(n) : n \in 1..MaxLEDs}

\* the strips the hook is called for: one with a section of its own in the
\* sample files, one without
HookIndices == {0, 9}

\* the contents the file has at start-up
PixelContents ==
    { [global |-> [brightness |-> <<"8", "0">>], title |-> NoSection],
      [global |-> [gamma_g |-> <<"0", ".", "5">>],
       title |-> [static_color |-> <<"#", "8", "0", "0", "0", "f", "f">>,
                  gradient_color |-> <<"0", "0", "0", "0", "F", "F">>]],
      [global |-> [static_color |-> <<"0", "0", "0", "0", "1", "2">>],
       title |-> [channel_order |-> <<"b", "g", "r">>]],
      [global |-> NoSection,
       title |-> [static_color |-> <<"F", "F", "0", "0", "2", "B">>,
                  gradient_color |-> <<"F", "F", "2", "B", "0", "0">>]] }

\* the state before the hook call that makes the first reload check: DllMain has
\* run InitConfig and LoadConfig, and the RELOAD_INTERVAL - 1 hook calls so far
\* have only counted
InitPixel ==
    /\ file \in {NoFile} \cup {FileOf(c, 1) : c \in PixelContents}
    /\ \E r \in {LoadConfig(InitConfig, 0, file)} :
          /\ strips = r.strips
          /\ lastWriteTime = r.lastWriteTime
    /\ callCounter = RELOAD_INTERVAL - 1
    /\ lastOp = Did("tick", NoFile)
    /\ px = PxIdle
    /\ hsv = HsvIdle
    /\ thr = ThrIdle

\* the call of SetTapeLedDataHook(This, index, data), index < 10, that makes the
\* reload check: CheckReload, then
\* TransformStrip on a copy of the buffer; px keeps the strip as the call found
\* it after the check, the buffer, cr, cg, cb after steps 2 and 3 of the loop, and
\* the hue and saturation step 3 gave HSVtoRGB for each LED
SetTapeLedDataHook ==
    /\ callCounter = RELOAD_INTERVAL - 1
    /\ CheckReloadBody
    /\ \E index \in HookIndices, data \in Buffers :
          \E strip \in {strips'[index]} :
              px' = [index |-> index,
                     strip |-> strip,
                     data |-> data,
                     gc |-> IF strip.enabled THEN GammaCorrectedBuf(strip, data) ELSE data,
                     hs |-> IF strip.enabled /\ strip.static_color_enabled
                            THEN [l \in 1..(Len(data) \div 3) |->
                                     StaticHS(strip, l - 1, Len(data) \div 3)]
                            ELSE <<>>,
                     mid |-> IF strip.enabled THEN ColorStageBuf(strip, data) ELSE data,
                     out |-> TransformStrip(strip, data),
                     done |-> TRUE]
    /\ UNCHANGED <<hsv, thr>>

NextPixel == SetTapeLedDataHook \/ WriteFile \/ DeleteFile

SpecPixel == InitPixel /\ [][NextPixel]_vars

LEDsOf(data) == 0..((Len(data) \div 3) - 1)

\* C8: a hook call whose strip is not enabled passes every byte of the buffer on
\* unchanged, whatever the other fields of the strip are; and after InitConfig,
\* and after a load that finds no file, no strip is enabled
C8_DisabledIsIdentity ==
    /\ (px.done /\ ~px.strip.enabled) => px.out = px.data
    /\ \A i \in StripIndex : ~InitConfig[i].enabled
    /\ lastOp.op = "check_load_nofile" => \A i \in StripIndex : ~strips[i].enabled

\* a hook call whose strip is disabled while its other fields are not the
\* identity ones (the file vanished before a load) on a buffer that is not black
C8_Witness ==
    /\ px.done
    /\ ~px.strip.enabled
    /\ px.strip # IdentityStrip
    /\ px.out = px.data
    /\ \E j \in 1..Len(px.data) : px.data[j] # 0

\* C9: with a static colour, the colour stage gives every LED a pixel whose
\* largest channel is the largest channel V of the gamma-corrected pixel; with
\* brightness 100 that is the largest channel of the output pixel, and a black
\* LED stays black
C9_StaticKeepsValue ==
    (px.done /\ px.strip.enabled /\ px.strip.static_color_enabled) =>
        \A l \in LEDsOf(px.data) :
            LET gc == PixelAt(px.gc, l)
                mid == PixelAt(px.mid, l)
                out == PixelAt(px.out, l)
            IN  /\ Max3(mid[1], mid[2], mid[3]) = Max3(gc[1], gc[2], gc[3])
                /\ px.strip.brightness = 100 =>
                      /\ Max3(out[1], out[2], out[3]) = Max3(gc[1], gc[2], gc[3])
                      /\ PixelAt(px.data, l) = <<0, 0, 0>> => out = <<0, 0, 0>>

\* a hook call with a gradient of static colours on a buffer of three LEDs whose
\* pixels differ in value from the static colours, and where the colour stage
\* changed the pixel
C9_Witness ==
    /\ px.done
    /\ px.strip.enabled
    /\ px.strip.static_color_enabled
    /\ px.strip.gradient_enabled
    /\ Len(px.data) = 9
    /\ \E l \in LEDsOf(px.data) :
          /\ PixelAt(px.mid, l) # PixelAt(px.gc, l)
          /\ Max3(px.gc[3 * l + 1], px.gc[3 * l + 2], px.gc[3 * l + 3])
                # RGBtoHSV(px.strip.static_r, px.strip.static_g, px.strip.static_b).v
          /\ Max3(px.gc[3 * l + 1], px.gc[3 * l + 2], px.gc[3 * l + 3]) > 0

-----------------------------------------------------------------------------
(* The HSV round trip: HSVtoRGB, then RGBtoHSV *)

\* the saturations and values tried
HsvSamples == {1, 2, 3, 64, 127, 128, 129, 192, 254, 255}

Hues == 0..359

InitHSV ==
    /\ file = NoFile
    /\ strips = InitConfig
    /\ lastWriteTime = 0
    /\ callCounter = 0
    /\ lastOp = Did("InitConfig", NoFile)
    /\ px = PxIdle
    /\ hsv \in {[HsvIdle EXCEPT !.h = h, !.s = s, !.v = v] :
                    h \in Hues, s \in HsvSamples, v \in HsvSamples}
    /\ thr = ThrIdle

\* HSVtoRGB(h, s, v, r, g, b), then RGBtoHSV(r, g, b, h', s', v')
RoundTrip ==
    /\ ~hsv.done
    /\ \E rgb \in {HSVtoRGB(hsv.h, hsv.s, hsv.v)} :
          hsv' = [hsv EXCEPT !.rgb = rgb,
                             !.back = RGBtoHSV(rgb[1], rgb[2], rgb[3]),
                             !.done = TRUE]
    /\ UNCHANGED <<file, strips, lastWriteTime, callCounter, lastOp, px, thr>>

SpecHSV == InitHSV /\ [][RoundTrip]_vars

Abs(x) == IF x < 0 THEN -x ELSE x

\* the distance of two hues on the 360-degree circle
HueDist(a, b) == Min2((a - b) % 360, (b - a) % 360)

Within1(a, b) ==
    /\ HueDist(a.h, b.h) <= 1
    /\ Abs(a.s - b.s) <= 1
    /\ Abs(a.v - b.v) <= 1

\* C10 as stated: for h in [0,359], s in [1,255], v in [1,255], the round trip
\* returns each component within 1 unit of the original
C10_RoundTripWithin1 ==
    hsv.done => Within1(hsv.back, hsv)

\* C10 as amended: the round trip returns v exactly for h in [0,359], s in
\* [1,255], v in [1,255], and each component within 1 unit when s >= 128 and
\* v >= 128
C10_RoundTripWithin1Bright ==
    hsv.done =>
        /\ hsv.back.v = hsv.v
        /\ (hsv.s >= 128 /\ hsv.v >= 128) => Within1(hsv.back, hsv)

\* a round trip with s >= 128 and v >= 128 that does not return its input
C10_Witness ==
    /\ hsv.done
    /\ hsv.s >= 128
    /\ hsv.v >= 128
    /\ <<hsv.back.h, hsv.back.s, hsv.back.v>> # <<hsv.h, hsv.s, hsv.v>>

-----------------------------------------------------------------------------
(* Two hook calls at once: one thread's CheckReload rewrites g_transformConfig
   in place while another thread's TransformStrip reads a strip of it.  Nothing
   in the code orders the two, so any interleaving of the writer's stores with
   the reader's loads can happen; the stores and loads below are taken in the
   order the code makes them, a group of fields at a time. *)

\* the stores of LoadStripFromSection into a strip, in order
LoadWriteOrder ==
    << {"channelOrder"}, {"gamma_r"}, {"gamma_g"}, {"gamma_b"},
       {"hue_shift"}, {"saturation"}, {"brightness"},
       {"static_color_enabled", "static_r", "static_g", "static_b"},
       {"gradient_enabled", "gradient_r2", "gradient_g2", "gradient_b2"},
       {"lut_r"}, {"lut_g"}, {"lut_b"}, {"enabled"} >>

\* the stores of the deleted-file branch of CheckReload into a strip, in order
ResetWriteOrder ==
    << {"enabled"}, {"channelOrder"}, {"gamma_r"}, {"gamma_g"}, {"gamma_b"},
       {"hue_shift"}, {"saturation"}, {"brightness"},
       {"static_color_enabled", "static_r", "static_g", "static_b"},
       {"gradient_enabled", "gradient_r2", "gradient_g2", "gradient_b2"},
       {"lut_r"}, {"lut_g"}, {"lut_b"} >>

\* the loads of TransformStrip from its strip, in order: the fast-path test, the
\* fields read before the loop, the fields read in the loop
ReadOrder ==
    << {"enabled"},
       {"hue_shift", "saturation", "static_color_enabled", "static_r", "static_g",
        "static_b", "gradient_enabled", "gradient_r2", "gradient_g2", "gradient_b2"},
       {"channelOrder", "lut_r", "lut_g", "lut_b", "brightness"} >>

\* the fields TransformStrip reads
ReadFields == UNION {ReadOrder[k] : k \in 1..Len(ReadOrder)}

\* a strip after a store of the fields F of the strip src into it
StoreFields(strip, src, F) ==
    [f \in DOMAIN strip |-> IF f \in F THEN src[f] ELSE strip[f]]

WriterIdle == [pc |-> "idle", order |-> <<>>, target |-> InitConfig, old |-> InitConfig,
               i |-> 0, k |-> 1]

ReaderIdle == [pc |-> "idle", index |-> 0, seen |-> IdentityStrip, k |-> 1]

\* the contents the file had when DllMain loaded it
RaceContents == ReloadContents

\* a state the hook calls reach: DllMain has loaded the file, RELOAD_INTERVAL - 1
\* hook calls have counted, and another process has since rewritten or deleted
\* the file, or left it alone; no process touches the file while the two calls run
InitRace ==
    /\ \E loaded \in {FileOf(c, 1) : c \in RaceContents} :
          \E r \in {LoadConfig(InitConfig, 0, loaded)} :
              /\ strips = r.strips
              /\ lastWriteTime = r.lastWriteTime
    /\ file \in {NoFile} \cup {FileOf(c, t) : c \in RaceContents, t \in FileTimes}
    /\ callCounter = RELOAD_INTERVAL - 1
    /\ lastOp = Did("tick", NoFile)
    /\ px = PxIdle
    /\ hsv = HsvIdle
    /\ thr = [w |-> WriterIdle, r |-> ReaderIdle]

\* the writer's state when CheckReload starts to store the strips of target
Writing(order, target) ==
    [pc |-> "writing", order |-> order, target |-> target, old |-> strips, i |-> 0, k |-> 1]

\* thread 1 calls the hook and its CheckReload makes the check: the counter is
\* reset, the branch is chosen, lastWriteTime is stored; the strips are stored
\* by the steps that follow
WriterCheck ==
    /\ thr.w.pc = "idle"
    /\ callCounter + 1 >= RELOAD_INTERVAL
    /\ callCounter' = 0
    /\ IF ~Readable(file)
       THEN /\ lastWriteTime' = 0
            /\ thr' = [thr EXCEPT !.w = IF lastWriteTime # 0
                                        THEN Writing(ResetWriteOrder, InitConfig)
                                        ELSE [WriterIdle EXCEPT !.pc = "done", !.old = strips,
                                                                !.target = strips]]
            /\ lastOp' = Did(IF lastWriteTime # 0 THEN "check_reset" ELSE "check_gone", file)
            /\ UNCHANGED file
       ELSE IF FileTimeChanged(file.mtime, lastWriteTime)
       THEN \E r \in {LoadConfig(strips, lastWriteTime, file)} :
               /\ lastWriteTime' = r.lastWriteTime
               /\ thr' = [thr EXCEPT !.w = Writing(LoadWriteOrder, r.strips)]
               /\ lastOp' = Did("check_load", file)
               /\ UNCHANGED file
       ELSE /\ thr' = [thr EXCEPT !.w = [WriterIdle EXCEPT !.pc = "done", !.old = strips,
                                                          !.target = strips]]
            /\ lastOp' = Did("check_same", file)
            /\ UNCHANGED <<file, lastWriteTime>>
    /\ UNCHANGED <<strips, px, hsv>>

\* thread 1 makes its next store into strips[i]
WriterStore ==
    /\ thr.w.pc = "writing"
    /\ strips' = [strips EXCEPT ![thr.w.i] =
                     StoreFields(@, thr.w.target[thr.w.i], thr.w.order[thr.w.k])]
    /\ thr' = [thr EXCEPT !.w =
                  IF thr.w.k < Len(thr.w.order) THEN [@ EXCEPT !.k = @ + 1]
                  ELSE IF thr.w.i < NumStrips - 1 THEN [@ EXCEPT !.i = @ + 1, !.k = 1]
                  ELSE [@ EXCEPT !.pc = "done"]]
    /\ UNCHANGED <<file, lastWriteTime, callCounter, lastOp, px, hsv>>

\* thread 2 calls the hook for a strip: its CheckReload only counts, and its
\* TransformStrip starts on strips[index]
ReaderCall ==
    /\ thr.r.pc = "idle"
    /\ thr.w.pc # "idle"
    /\ callCounter + 1 < RELOAD_INTERVAL
    /\ callCounter' = callCounter + 1
    /\ \E index \in HookIndices :
          thr' = [thr EXCEPT !.r = [pc |-> "reading", index |-> index,
                                    seen |-> IdentityStrip, k |-> 1]]
    /\ UNCHANGED <<file, strips, lastWriteTime, lastOp, px, hsv>>

\* thread 2 makes its next loads from strips[index]; a strip found not enabled
\* ends the call
ReaderLoad ==
    /\ thr.r.pc = "reading"
    /\ \E seen \in {StoreFields(thr.r.seen, strips[thr.r.index], ReadOrder[thr.r.k])} :
          thr' = [thr EXCEPT !.r =
                     IF ~seen.enabled \/ thr.r.k = Len(ReadOrder)
                     THEN [@ EXCEPT !.seen = seen, !.pc = "done"]
                     ELSE [@ EXCEPT !.seen = seen, !.k = @ + 1]]
    /\ UNCHANGED <<file, strips, lastWriteTime, callCounter, lastOp, px, hsv>>

NextRace == WriterCheck \/ WriterStore \/ ReaderCall \/ ReaderLoad

SpecRace == InitRace /\ [][NextRace]_vars

\* the fields the call has read are those of the strip v
SeenIs(v) ==
    \A f \in ReadFields :
        (f = "enabled" \/ thr.r.seen.enabled) => thr.r.seen[f] = v[f]

\* C1: a TransformStrip call that runs while CheckReload replaces the
\* configuration reads the fields of its strip either all as they were before the
\* replacement or all as they are after it
C1_AtomicReplacement ==
    thr # ThrIdle /\ thr.r.pc = "done" =>
        \/ SeenIs(thr.w.old[thr.r.index])
        \/ SeenIs(thr.w.target[thr.r.index])

-----------------------------------------------------------------------------
(* The configuration over any sequence of loads and reload checks, with files
   whose values are out of range and whose colour keys come in every
   combination *)

\* the contents the file takes
ConfigContents ==
    { [global |-> [hue_shift |-> <<"3", "7", "0">>, saturation |-> <<"2", "5", "0">>],
       title |-> [hue_shift |-> <<"-", "1", "0">>, brightness |-> <<"-", "5">>]],
      [global |-> [gradient_color |-> <<"0", "0", "0", "0", "F", "F">>,
                   brightness |-> <<"3", "0", "0">>],
       title |-> [static_color |-> <<"F", "F", "0", "0", "0", "0">>]],
      [global |-> [static_color |-> <<"#", "8", "0", "0", "0", "f", "f">>,
                   gradient_color |-> <<"0", "0", "0", "0", "F", "F">>],
       title |-> [static_color |-> <<"z", "z", "z", "z", "z", "z">>,
                  gradient_color |-> <<"z", "z">>]],
      [global |-> NoSection,
       title |-> [gradient_color |-> <<"0", "0", "0", "0", "F", "F">>]] }

InitConfigSpec ==
    /\ file \in {NoFile} \cup {FileOf(c, 1) : c \in ConfigContents}
    /\ strips = InitConfig
    /\ lastWriteTime = 0
    /\ callCounter = 0
    /\ lastOp = Did("InitConfig", NoFile)
    /\ px = PxIdle
    /\ hsv = HsvIdle
    /\ thr = ThrIdle

\* another process writes the file; CheckReload looks at the file on its
\* RELOAD_INTERVAL-th call only, so the writes that matter are those standing
\* when that call comes
WriteBeforeCheck ==
    /\ lastOp.op # "InitConfig"
    /\ callCounter = RELOAD_INTERVAL - 1
    /\ \E c \in ConfigContents, t \in FileTimes :
          /\ file' = FileOf(c, t)
          /\ file' # file
    /\ UNCHANGED <<strips, lastWriteTime, callCounter, lastOp, px, hsv, thr>>

\* another process deletes the file before the call that makes the check
DeleteBeforeCheck ==
    /\ callCounter = RELOAD_INTERVAL - 1
    /\ DeleteFile

NextConfig == DllMainLoad \/ CheckReload \/ WriteBeforeCheck \/ DeleteBeforeCheck

SpecConfig == InitConfigSpec /\ [][NextConfig]_vars

\* the last step loaded the file it found, and the file stayed as it was
Loaded == lastOp.op \in {"LoadConfig", "check_load"} /\ lastOp.seen = file

\* C11: in every state every strip has hue_shift in [0,359] and saturation and
\* brightness in [0,200]; a loaded hue_shift=370 is 10, -10 is 350, a saturation
\* of 250 and a brightness of 300 are 200, a brightness of -5 is 0
C11_RangesKept ==
    /\ \A i \in StripIndex :
          /\ strips[i].hue_shift \in 0..359
          /\ strips[i].saturation \in 0..200
          /\ strips[i].brightness \in 0..200
    /\ Loaded =>
          \A i \in StripIndex :
              LET own == IF StripSectionNames[i] \in DOMAIN file.content
                         THEN file.content[StripSectionNames[i]] ELSE NoSection
                  glob == file.content["global"]
                  text(key) == IF key \in DOMAIN own THEN own[key]
                               ELSE IF key \in DOMAIN glob THEN glob[key] ELSE <<>>
              IN  /\ text("hue_shift") = <<"3", "7", "0">> => strips[i].hue_shift = 10
                  /\ text("hue_shift") = <<"-", "1", "0">> => strips[i].hue_shift = 350
                  /\ text("saturation") = <<"2", "5", "0">> => strips[i].saturation = 200
                  /\ text("brightness") = <<"3", "0", "0">> => strips[i].brightness = 200
                  /\ text("brightness") = <<"-", "5">> => strips[i].brightness = 0

\* a reload check loaded a file with hue_shift=-10 and brightness=-5 for "title"
\* and hue_shift=370 and saturation=250 for the other strips
C11_Witness ==
    /\ lastOp.op = "check_load"
    /\ lastOp.seen = file
    /\ HasKey(file.content, "title", "hue_shift")
    /\ strips[0].hue_shift = 350
    /\ strips[0].brightness = 0
    /\ strips[9].hue_shift = 10
    /\ strips[9].saturation = 200

\* C12: in every state no strip has gradient_enabled without
\* static_color_enabled, whatever static_color and gradient_color keys [global]
\* and the strip's section hold
C12_GradientNeedsStatic ==
    \A i \in StripIndex : strips[i].gradient_enabled => strips[i].static_color_enabled

\* a load of a file whose "title" section holds a well-formed gradient_color
\* and no static colour from any section: the gradient is off
C12_Witness ==
    /\ Loaded
    /\ HasKey(file.content, "title", "gradient_color")
    /\ ParseHexColor(file.content["title"]["gradient_color"]).ok
    /\ ~strips[0].static_color_enabled
    /\ ~strips[0].gradient_enabled

-----------------------------------------------------------------------------
(* C13: the reload check runs on every 300th call of CheckReload *)

CheckOps == {"check_reset", "check_gone", "check_same", "check_load",
             "check_load_nofile", "check_load_unreadable"}

\* C13: the counter stays in [0,299]; every call of CheckReload adds one to it,
\* the call that finds it at 299 resets it to 0 and is the only one to make the
\* check; and a check that finds the file readable with another modification
\* time, the file staying as it is during the load, leaves the strips loaded
\* from the file and stores its modification time
C13_CheckEvery300th ==
    [][/\ callCounter \in 0..299
       /\ callCounter' \in 0..299
       /\ callCounter' # callCounter =>
             /\ callCounter' = (callCounter + 1) % 300
             /\ (lastOp'.op \in CheckOps) <=> (callCounter = 299)
             /\ (lastOp'.op = "tick") <=> (callCounter < 299)
             /\ callCounter < 299 => (strips' = strips /\ lastWriteTime' = lastWriteTime)
             /\ (callCounter = 299 /\ Readable(file) /\ file.mtime # lastWriteTime
                    /\ file' = file)
                   => /\ strips' = LoadedStrips(file.content)
                      /\ lastWriteTime' = file.mtime]_vars

\* the 300th call after a write found the new modification time and loaded the
\* file: the strips are those of the file, not those of start-up
C13_Witness ==
    /\ lastOp.op = "check_load"
    /\ callCounter = 0
    /\ lastOp.seen = file
    /\ lastWriteTime = file.mtime
    /\ strips = LoadedStrips(file.content)
    /\ strips[0].static_color_enabled

-----------------------------------------------------------------------------
(* C14: strip.enabled against the other fields of the strip *)

\* C14: in every state a strip is enabled if and only if its channel order is
\* not RGB, or a gamma is not 1.0, or its hue shift is not 0, or its saturation
\* or brightness is not 100, or it has a static colour or a gradient
C14_EnabledIffActive ==
    \A i \in StripIndex : strips[i].enabled <=> AnyTransformActive(strips[i])

-----------------------------------------------------------------------------
(* C15: the gradient between the static colour and the gradient colour *)

\* x lies between a and b
Between(x, a, b) == (a <= x /\ x <= b) \/ (b <= x /\ x <= a)

\* C15: with a static colour (H1,S1) and a gradient colour (H2,S2) on N LEDs,
\* LED k is rebuilt from the pixel's value with a hue that lies |d|*k div (N-1)
\* from H1 and the rest of |d| from H2, |d| <= 180 being the distance of H1 and
\* H2 on the circle, and with a saturation between S1 and S2 that lies
\* |S2-S1|*k div (N-1) from S1; LED 0 gets (H1,S1) and LED N-1 gets (H2,S2);
\* from hue 350 to hue 10 on 3 LEDs the middle LED gets hue 0; with N = 1 the LED
\* gets (H1,S1)
C15_GradientInterpolation ==
    (px.done /\ px.strip.enabled /\ px.strip.static_color_enabled
        /\ px.strip.gradient_enabled) =>
        LET N == Len(px.data) \div 3
            c1 == RGBtoHSV(px.strip.static_r, px.strip.static_g, px.strip.static_b)
            c2 == RGBtoHSV(px.strip.gradient_r2, px.strip.gradient_g2, px.strip.gradient_b2)
            dist == HueDist(c1.h, c2.h)
        IN  \A k \in 0..(N - 1) :
                LET got == px.hs[k + 1]
                    gc == PixelAt(px.gc, k)
                IN  /\ PixelAt(px.mid, k) = HSVtoRGB(got.h, got.s, Max3(gc[1], gc[2], gc[3]))
                    /\ got.h \in 0..359
                    /\ N = 1 => got = [h |-> c1.h, s |-> c1.s]
                    /\ N > 1 =>
                          /\ dist <= 180
                          /\ HueDist(got.h, c1.h) = (dist * k) \div (N - 1)
                          /\ HueDist(got.h, c2.h) = dist - ((dist * k) \div (N - 1))
                          /\ Between(got.s, c1.s, c2.s)
                          /\ Abs(got.s - c1.s) = (Abs(c2.s - c1.s) * k) \div (N - 1)
                          /\ k = 0 => got = [h |-> c1.h, s |-> c1.s]
                          /\ k = N - 1 => got = [h |-> c2.h, s |-> c2.s]
                          /\ (c1.h = 350 /\ c2.h = 10 /\ N = 3 /\ k = 1) => got.h = 0

\* a hook call on 3 LEDs of a strip whose static colour has hue 350 and whose
\* gradient colour has hue 10: the middle LED is rebuilt with hue 0
C15_Witness ==
    /\ px.done
    /\ px.strip.enabled
    /\ px.strip.static_color_enabled
    /\ px.strip.gradient_enabled
    /\ Len(px.data) = 9
    /\ RGBtoHSV(px.strip.static_r, px.strip.static_g, px.strip.static_b).h = 350
    /\ RGBtoHSV(px.strip.gradient_r2, px.strip.gradient_g2, px.strip.gradient_b2).h = 10
    /\ px.hs[2].h = 0
    /\ PixelAt(px.data, 1) # <<0, 0, 0>>

====
